---- MODULE Spec2Model ----
(***************************************************************************)
(* Model of the water-level pipeline of water_data_plotter.py:             *)
(* load_data (fetch, row loop, strptime / float validation), the year      *)
(* filter, the downsampler and the trend computation of plot_data.         *)
(*                                                                         *)
(* A string is a sequence of one-character strings, so that the parsers    *)
(* below inspect characters the way the Python library routines do.        *)
(***************************************************************************)
EXTENDS Integers, Sequences, FiniteSets, TLC

(***************************************************************************)
(* Bounds of the model.                                                    *)
(***************************************************************************)
MaxRows == 3
MaxRes == 2
MaxReloads == 1

(***************************************************************************)
(* Character helpers.                                                      *)
(***************************************************************************)
Digits == {"0", "1", "2", "3", "4", "5", "6", "7", "8", "9"}

DigitVal(c) ==
    CASE c = "0" -> 0 [] c = "1" -> 1 [] c = "2" -> 2 [] c = "3" -> 3
      [] c = "4" -> 4 [] c = "5" -> 5 [] c = "6" -> 6 [] c = "7" -> 7
      [] c = "8" -> 8 [] c = "9" -> 9

\* s[i], or the empty string past the end of s
At(s, i) == IF i >= 1 /\ i <= Len(s) THEN s[i] ELSE ""

IsDigitAt(s, i) == At(s, i) \in Digits

\* str.startswith for a one-character prefix
StartsWith(s, c) == Len(s) >= 1 /\ s[1] = c

\* the Python test: " " in s
ContainsSpace(s) == \E i \in 1..Len(s) : s[i] = " "

(***************************************************************************)
(* datetime.strptime(s, "%Y-%m-%d %H:%M").  The format compiles to the     *)
(* regular expression                                                      *)
(*   (\d\d\d\d)-(1[0-2]|0[1-9]|[1-9])-(3[01]|[12]\d|0[1-9]|[1-9]| [1-9])   *)
(*   \s+(2[0-3]|[0-1]\d|\d):([0-5]\d|\d)                                   *)
(* matched at the start of s; all of s must be consumed, and the date must *)
(* exist in the calendar.  Every directive is followed by a character that *)
(* is not a digit (or by the end), so the first alternative that matches   *)
(* is the only one that can lead to a match.                               *)
(***************************************************************************)
\* width of the %m match at position i (0: no match)
WidthMonth(s, i) ==
    IF At(s, i) = "1" /\ At(s, i + 1) \in {"0", "1", "2"} THEN 2
    ELSE IF At(s, i) = "0" /\ At(s, i + 1) \in Digits \ {"0"} THEN 2
    ELSE IF At(s, i) \in Digits \ {"0"} THEN 1
    ELSE 0

\* width of the %d match at position i (0: no match)
WidthDay(s, i) ==
    IF At(s, i) = "3" /\ At(s, i + 1) \in {"0", "1"} THEN 2
    ELSE IF At(s, i) \in {"1", "2"} /\ IsDigitAt(s, i + 1) THEN 2
    ELSE IF At(s, i) = "0" /\ At(s, i + 1) \in Digits \ {"0"} THEN 2
    ELSE IF At(s, i) \in Digits \ {"0"} THEN 1
    ELSE IF At(s, i) = " " /\ At(s, i + 1) \in Digits \ {"0"} THEN 2
    ELSE 0

\* width of the %H match at position i (0: no match)
WidthHour(s, i) ==
    IF At(s, i) = "2" /\ At(s, i + 1) \in {"0", "1", "2", "3"} THEN 2
    ELSE IF At(s, i) \in {"0", "1"} /\ IsDigitAt(s, i + 1) THEN 2
    ELSE IF IsDigitAt(s, i) THEN 1
    ELSE 0

\* width of the %M match at position i (0: no match)
WidthMinute(s, i) ==
    IF At(s, i) \in {"0", "1", "2", "3", "4", "5"} /\ IsDigitAt(s, i + 1) THEN 2
    ELSE IF IsDigitAt(s, i) THEN 1
    ELSE 0

\* number of spaces of s from position i on (the \s+ of the format)
RECURSIVE SpacesFrom(_, _)
SpacesFrom(s, i) == IF At(s, i) = " " THEN 1 + SpacesFrom(s, i + 1) ELSE 0

\* value of the w characters of s at position i, a leading space counting 0
RECURSIVE NumAt(_, _, _)
NumAt(s, i, w) ==
    IF w = 0 THEN 0
    ELSE (IF s[i + w - 1] = " " THEN 0 ELSE DigitVal(s[i + w - 1]))
         + 10 * NumAt(s, i, w - 1)

IsLeap(y) == (y % 4 = 0) /\ ((y % 100 # 0) \/ (y % 400 = 0))

DaysInMonth(y, m) ==
    IF m = 2 THEN (IF IsLeap(y) THEN 29 ELSE 28)
    ELSE IF m \in {4, 6, 9, 11} THEN 30
    ELSE 31

NoDate == [ok |-> FALSE, year |-> 0, month |-> 0, day |-> 0, hour |-> 0, minute |-> 0]

\* ok = FALSE stands for ValueError
Strptime(s) ==
    IF ~(\A i \in 1..4 : IsDigitAt(s, i)) \/ At(s, 5) # "-" THEN NoDate
    ELSE LET wm == WidthMonth(s, 6) IN
    IF wm = 0 \/ At(s, 6 + wm) # "-" THEN NoDate
    ELSE LET pd == 7 + wm
             wd == WidthDay(s, pd) IN
    IF wd = 0 THEN NoDate
    ELSE LET ws == SpacesFrom(s, pd + wd) IN
    IF ws = 0 THEN NoDate
    ELSE LET ph == pd + wd + ws
             wh == WidthHour(s, ph) IN
    IF wh = 0 \/ At(s, ph + wh) # ":" THEN NoDate
    ELSE LET pm == ph + wh + 1
             wn == WidthMinute(s, pm) IN
    IF wn = 0 \/ pm + wn - 1 # Len(s) THEN NoDate
    ELSE LET y == NumAt(s, 1, 4)
             m == NumAt(s, 6, wm)
             d == NumAt(s, pd, wd) IN
    IF y < 1 \/ d > DaysInMonth(y, m) THEN NoDate
    ELSE [ok |-> TRUE, year |-> y, month |-> m, day |-> d,
          hour |-> NumAt(s, ph, wh), minute |-> NumAt(s, pm, wn)]

(***************************************************************************)
(* float(s) for the decimal forms: surrounding spaces are stripped, then   *)
(* an optional sign, digits with at most one point and at least one digit. *)
(* The value is num / 10^exp with no trailing zero in the fraction, so     *)
(* that equal numbers have equal representations.  (Exponent, inf, nan and *)
(* underscore forms are outside the alphabet of the modelled fields.)      *)
(***************************************************************************)
RECURSIVE Strip(_)
Strip(s) ==
    IF s # <<>> /\ Head(s) = " " THEN Strip(Tail(s))
    ELSE IF s # <<>> /\ s[Len(s)] = " " THEN Strip(SubSeq(s, 1, Len(s) - 1))
    ELSE s

\* value of the digits of s, skipping the point
RECURSIVE DigitsValue(_)
DigitsValue(s) ==
    IF s = <<>> THEN 0
    ELSE IF s[Len(s)] = "." THEN DigitsValue(SubSeq(s, 1, Len(s) - 1))
    ELSE DigitVal(s[Len(s)]) + 10 * DigitsValue(SubSeq(s, 1, Len(s) - 1))

RECURSIVE Normalise(_, _)
Normalise(num, exp) ==
    IF exp > 0 /\ num % 10 = 0 THEN Normalise(num \div 10, exp - 1)
    ELSE [ok |-> TRUE, num |-> num, exp |-> exp]

NoFloat == [ok |-> FALSE, num |-> 0, exp |-> 0]

\* ok = FALSE stands for ValueError
Float(s) ==
    LET t == Strip(s)
        signed == t # <<>> /\ t[1] \in {"+", "-"}
        body == IF signed THEN Tail(t) ELSE t
        points == {i \in 1..Len(body) : body[i] = "."}
    IN IF \/ \E i \in 1..Len(body) : body[i] \notin Digits \cup {"."}
          \/ Cardinality(points) > 1
          \/ Len(body) - Cardinality(points) < 1
       THEN NoFloat
       ELSE LET frac == IF points = {} THEN 0
                        ELSE Len(body) - (CHOOSE i \in points : TRUE)
                mag == DigitsValue(body)
            IN Normalise(IF signed /\ t[1] = "-" THEN 0 - mag ELSE mag, frac)

(***************************************************************************)
(* matplotlib.dates.date2num: the time since 1970-01-01 00:00, in days.    *)
(* The model counts it in minutes (1/1440 day) to stay in the integers.    *)
(***************************************************************************)
DaysBeforeYear(y) ==
    (y - 1) * 365 + ((y - 1) \div 4) - ((y - 1) \div 100) + ((y - 1) \div 400)

RECURSIVE DaysBeforeMonth(_, _)
DaysBeforeMonth(y, m) ==
    IF m = 1 THEN 0 ELSE DaysInMonth(y, m - 1) + DaysBeforeMonth(y, m - 1)

ToOrdinal(dt) == DaysBeforeYear(dt.year) + DaysBeforeMonth(dt.year, dt.month) + dt.day

EpochOrdinal == ToOrdinal([year |-> 1970, month |-> 1, day |-> 1])

Date2Num(dt) ==
    ((ToOrdinal(dt) - EpochOrdinal) * 24 + dt.hour) * 60 + dt.minute

RECURSIVE Date2NumSeq(_)
Date2NumSeq(ds) ==
    IF ds = <<>> THEN <<>> ELSE <<Date2Num(Head(ds))>> \o Date2NumSeq(Tail(ds))

(***************************************************************************)
(* The fields and rows the source reader may yield.  csv.reader yields one *)
(* list of fields per line: the empty list for a blank line.               *)
(***************************************************************************)
F_USGS == <<"U", "S", "G", "S">>
F_Site == <<"3", "9">>
F_Param == <<"P">>
F_Comment == <<"#", " ", "x">>
F_AgencyCd == <<"a", "g", "e", "n", "c", "y", "_", "c", "d">>
TS_2009 == <<"2", "0", "0", "9", "-", "0", "1", "-", "0", "3", " ", "0", "0", ":", "0", "0">>
TS_2010 == <<"2", "0", "1", "0", "-", "0", "6", "-", "1", "5", " ", "1", "2", ":", "3", "0">>
TS_NoSpace == <<"b", "a", "d", "-", "d", "a", "t", "e">>
TS_BadMonth == <<"2", "0", "0", "9", "-", "1", "3", "-", "0", "1", " ", "0", "0", ":", "0", "0">>
D_125 == <<"1", "2", ".", "5">>
D_130 == <<"1", "3", ".", "0">>
D_Bad == <<"a", "b", "c">>
D_Empty == <<>>

RowA == <<F_USGS, F_Site, TS_2009, F_Param, D_125>>
RowB == <<F_USGS, F_Site, TS_2010, F_Param, D_130>>
RowBadDate == <<F_USGS, F_Site, TS_NoSpace, F_Param, D_130>>
RowBadBoth == <<F_USGS, F_Site, TS_BadMonth, F_Param, D_Bad>>
RowNoDepth == <<F_USGS, F_Site, TS_2009, F_Param, D_Empty>>
RowShort3 == <<F_USGS, F_Site, TS_2010>>
RowShort4 == <<F_USGS, F_Site, TS_2009, F_Param>>
RowOne == <<F_USGS>>
RowBlank == <<>>
RowComment == <<F_Comment, F_Site, TS_2009, F_Param, D_125>>
RowHeader == <<F_AgencyCd, F_Site, TS_2010, F_Param, D_130>>

\* The state names a line of the source by a short name; Fields gives the
\* list of fields csv.reader yields for it.
RowPool ==
    {"A", "B", "BadDate", "BadBoth", "NoDepth", "Short3", "Short4",
     "One", "Blank", "Comment", "Header"}

Fields(line) ==
    CASE line = "A" -> RowA
      [] line = "B" -> RowB
      [] line = "BadDate" -> RowBadDate
      [] line = "BadBoth" -> RowBadBoth
      [] line = "NoDepth" -> RowNoDepth
      [] line = "Short3" -> RowShort3
      [] line = "Short4" -> RowShort4
      [] line = "One" -> RowOne
      [] line = "Blank" -> RowBlank
      [] line = "Comment" -> RowComment
      [] line = "Header" -> RowHeader

RECURSIVE SeqsUpTo(_, _)
SeqsUpTo(S, n) ==
    IF n = 0 THEN {<<>>}
    ELSE LET shorter == SeqsUpTo(S, n - 1)
         IN shorter \cup {Append(q, x) : q \in {t \in shorter : Len(t) = n - 1}, x \in S}

Sources == SeqsUpTo(RowPool, MaxRows)

Years == {2009, 2010}
\* the strides with a defined meaning (a step of 0 makes the slice raise)
Resolutions == 1..MaxRes
StatusCodes == {200, 404}

(***************************************************************************)
(* State.  cls is the class of the instance (WaterDataPlotterYEAR or       *)
(* WaterDataPlotterALL); year, resolution, dates, depths are its fields.   *)
(* rows is the body of the source, idx the row the loop of load_data is    *)
(* at, out the lines printed.  filtered, reduced and trend hold the latest *)
(* value returned by filter_data_by_year, reduce_resolution and np.polyfit.*)
(* dateRow[k] and depthRow[k] are history variables: the index of the row  *)
(* that dates[k] and depths[k] were parsed from.  reloads counts the calls *)
(* of load_data on the instance after the first one.                       *)
(***************************************************************************)
VARIABLES cls, year, resolution, rows, status, pc, err, idx,
          dates, depths, dateRow, depthRow, out,
          filtered, refiltered, reduced, trend, reloads

vars == <<cls, year, resolution, rows, status, pc, err, idx,
          dates, depths, dateRow, depthRow, out,
          filtered, refiltered, reduced, trend, reloads>>

config == <<cls, year, resolution, rows>>
series == <<dates, depths, dateRow, depthRow>>
results == <<filtered, refiltered, reduced, trend>>

NoErr == [type |-> "none", in |-> "none"]
Raised(type, in) == [type |-> type, in |-> in]

None == [set |-> FALSE]

\* __init__ (the year of a WaterDataPlotterALL, which has none, is 0)
Init ==
    /\ cls \in {"YEAR", "ALL"}
    /\ year \in (IF cls = "YEAR" THEN Years ELSE {0})
    /\ resolution \in Resolutions
    /\ rows \in Sources
    /\ status = 0
    /\ pc = "new"
    /\ err = NoErr
    /\ idx = 0
    /\ dates = <<>>
    /\ depths = <<>>
    /\ dateRow = <<>>
    /\ depthRow = <<>>
    /\ out = <<>>
    /\ filtered = None
    /\ refiltered = None
    /\ reduced = None
    /\ trend = None
    /\ reloads = 0

(***************************************************************************)
(* load_data                                                               *)
(***************************************************************************)
\* variant of StatusFails: only server errors make load_data raise
StatusFailsServerErrorOnly(st) == st >= 500

\* the status test that makes load_data raise
StatusFails(st) == st # 200

\* requests.get raises (no response): load_data propagates the exception
FetchFails ==
    /\ pc = "new"
    /\ pc' = "aborted"
    /\ err' = Raised("ConnectionError", "load_data")
    /\ UNCHANGED <<config, reloads, status, idx, series, out, results>>

\* where load_data is after moving to row i: in the loop, or returned
LoopPc(i) == IF i <= Len(rows) THEN "rows" ELSE "loaded"

\* requests.get returns a response with status st; the status test
Fetch ==
    /\ pc = "new"
    /\ \E st \in StatusCodes :
         /\ status' = st
         /\ IF StatusFails(st)
            THEN /\ pc' = "aborted"
                 /\ err' = Raised("Exception", "load_data")
                 /\ idx' = idx
            ELSE /\ pc' = LoopPc(1)
                 /\ err' = err
                 /\ idx' = 1
    /\ UNCHANGED <<config, reloads, series, out, results>>

\* variant of IsSkippedRow: the header test is left out
IsSkippedRowHashOnly(row) == StartsWith(row[1], "#")

\* the comment / header test; row is not empty
IsSkippedRow(row) == StartsWith(row[1], "#") \/ row[1] = F_AgencyCd

DatetimeStr(row) == IF Len(row) > 2 THEN row[3] ELSE <<>>

DepthStr(row) == IF Len(row) > 4 THEN row[5] ELSE <<>>

\* the datetime field passes the space test and strptime
DateAccepted(s) == ContainsSpace(s) /\ Strptime(s).ok

\* the datetime object strptime returns
DateValue(s) ==
    LET r == Strptime(s)
    IN [year |-> r.year, month |-> r.month, day |-> r.day,
        hour |-> r.hour, minute |-> r.minute]

\* the depth field passes the truth test and float
DepthAccepted(s) == s # <<>> /\ Float(s).ok

DepthValue(s) == LET r == Float(s) IN [num |-> r.num, exp |-> r.exp]

\* the lines one row prints
Diagnostics(row) ==
    (IF DateAccepted(DatetimeStr(row)) THEN <<>>
     ELSE <<[kind |-> "datetime", value |-> DatetimeStr(row)]>>)
    \o
    (IF DepthStr(row) # <<>> /\ ~Float(DepthStr(row)).ok
     THEN <<[kind |-> "depth", value |-> DepthStr(row)]>>
     ELSE <<>>)

\* one iteration of the row loop
ProcessRow ==
    /\ pc = "rows"
    /\ LET row == Fields(rows[idx])
       IN IF Len(row) = 0
          THEN \* row[0] raises IndexError
               /\ pc' = "aborted"
               /\ err' = Raised("IndexError", "load_data")
               /\ UNCHANGED <<idx, series, out>>
          ELSE IF IsSkippedRow(row)
          THEN /\ idx' = idx + 1
               /\ pc' = LoopPc(idx + 1)
               /\ UNCHANGED <<err, series, out>>
          ELSE /\ IF DateAccepted(DatetimeStr(row))
                  THEN /\ dates' = Append(dates, DateValue(DatetimeStr(row)))
                       /\ dateRow' = Append(dateRow, idx)
                  ELSE UNCHANGED <<dates, dateRow>>
               /\ IF DepthAccepted(DepthStr(row))
                  THEN /\ depths' = Append(depths, DepthValue(DepthStr(row)))
                       /\ depthRow' = Append(depthRow, idx)
                  ELSE UNCHANGED <<depths, depthRow>>
               /\ out' = out \o Diagnostics(row)
               /\ idx' = idx + 1
               /\ pc' = LoopPc(idx + 1)
               /\ err' = err
    /\ UNCHANGED <<config, reloads, status, results>>

(***************************************************************************)
(* filter_data_by_year                                                     *)
(***************************************************************************)
\* the test of both comprehensions
YearMatches(date, y) == date.year = y

\* variant of MatchingFrom: the scan stops one entry before the end of ds
RECURSIVE MatchingFromStopsEarly(_, _, _)
MatchingFromStopsEarly(ds, y, i) ==
    IF i >= Len(ds) THEN <<>>
    ELSE (IF YearMatches(ds[i], y) THEN <<i>> ELSE <<>>)
         \o MatchingFromStopsEarly(ds, y, i + 1)

\* the indices i of ds, from i on and in order, whose date passes the test
RECURSIVE MatchingFrom(_, _, _)
MatchingFrom(ds, y, i) ==
    IF i > Len(ds) THEN <<>>
    ELSE (IF YearMatches(ds[i], y) THEN <<i>> ELSE <<>>) \o MatchingFrom(ds, y, i + 1)

\* [s[i] for i in ix]
Pick(s, ix) == [k \in 1..Len(ix) |-> s[ix[k]]]

\* raised: self.depths[i] raises IndexError at an index past the end of dp
FilterDataByYear(ds, dp, y) ==
    LET ix == MatchingFrom(ds, y, 1)
    IN IF \E k \in 1..Len(ix) : ix[k] > Len(dp)
       THEN [set |-> TRUE, raised |-> TRUE, dates |-> <<>>, depths |-> <<>>]
       ELSE [set |-> TRUE, raised |-> FALSE,
             dates |-> Pick(ds, ix), depths |-> Pick(dp, ix)]

(***************************************************************************)
(* reduce_resolution                                                       *)
(***************************************************************************)
\* variant of Slice: the slice s[1::n], which starts at the second entry
SliceFromSecond(s, n) == [k \in 1..((Len(s) - 1 + n - 1) \div n) |-> s[(k - 1) * n + 2]]

\* the Python slice s[::n], n >= 1
Slice(s, n) == [k \in 1..((Len(s) + n - 1) \div n) |-> s[(k - 1) * n + 1]]

\* variant of ReduceResolution: the depths are returned whole
ReduceResolutionDatesOnly(ds, dp, n) ==
    [set |-> TRUE, dates |-> Slice(ds, n), depths |-> dp]

ReduceResolution(ds, dp, n) ==
    [set |-> TRUE, dates |-> Slice(ds, n), depths |-> Slice(dp, n)]

(***************************************************************************)
(* np.polyfit(x, y, 1): TypeError for an empty x and for x and y of        *)
(* different lengths; otherwise the coefficients of the least-squares      *)
(* line are returned, with a RankWarning (no exception) when the system is *)
(* rank deficient: rank is the number of distinct abscissas, at most 2.    *)
(***************************************************************************)
Polyfit(x, y) ==
    IF Len(x) = 0 \/ Len(x) # Len(y)
    THEN [set |-> TRUE, raised |-> TRUE, points |-> Len(x), rank |-> 0]
    ELSE LET distinct == Cardinality({x[i] : i \in 1..Len(x)})
         IN [set |-> TRUE, raised |-> FALSE, points |-> Len(x),
             rank |-> IF distinct >= 2 THEN 2 ELSE 1]

(***************************************************************************)
(* Calls on a loaded instance.  An exception is not caught anywhere: it    *)
(* ends the script.                                                        *)
(***************************************************************************)
\* filter_data_by_year()
CallFilterDataByYear ==
    /\ pc = "loaded"
    /\ cls = "YEAR"
    /\ LET f == FilterDataByYear(dates, depths, year)
       IN IF f.raised
          THEN /\ pc' = "aborted"
               /\ err' = Raised("IndexError", "filter_data_by_year")
               /\ filtered' = filtered
          ELSE /\ filtered' = f
               /\ UNCHANGED <<pc, err>>
    /\ UNCHANGED <<config, reloads, status, idx, series, out, refiltered, reduced, trend>>

\* filter_data_by_year() of an instance of the same year whose series is the
\* series a filter returned
FilterAgain ==
    /\ pc = "loaded"
    /\ cls = "YEAR"
    /\ filtered.set
    /\ LET f == FilterDataByYear(filtered.dates, filtered.depths, year)
       IN IF f.raised
          THEN /\ pc' = "aborted"
               /\ err' = Raised("IndexError", "filter_data_by_year")
               /\ refiltered' = refiltered
          ELSE /\ refiltered' = f
               /\ UNCHANGED <<pc, err>>
    /\ UNCHANGED <<config, reloads, status, idx, series, out, filtered, reduced, trend>>

\* the lists reduce_resolution is applied to: the filtered lists
\* (WaterDataPlotterYEAR), the stored lists (WaterDataPlotterALL)
ReduceInput ==
    IF cls = "ALL" THEN [dates |-> dates, depths |-> depths]
    ELSE [dates |-> filtered.dates, depths |-> filtered.depths]

\* variant of CallReduceResolution: the reduced lists replace the stored ones
CallReduceResolutionInPlace ==
    /\ pc = "loaded"
    /\ cls = "YEAR" => filtered.set
    /\ reduced' = ReduceResolution(ReduceInput.dates, ReduceInput.depths, resolution)
    /\ dates' = reduced'.dates
    /\ depths' = reduced'.depths
    /\ UNCHANGED <<config, reloads, status, pc, err, idx, dateRow, depthRow, out,
                   filtered, refiltered, trend>>

\* reduce_resolution(filtered_dates, filtered_depths) / reduce_resolution()
CallReduceResolution ==
    /\ pc = "loaded"
    /\ cls = "YEAR" => filtered.set
    /\ reduced' = ReduceResolution(ReduceInput.dates, ReduceInput.depths, resolution)
    /\ UNCHANGED <<config, reloads, status, pc, err, idx, series, out, filtered, refiltered, trend>>

\* plot_data(), up to the trend line
PlotData ==
    /\ pc = "loaded"
    /\ LET f == IF cls = "YEAR" THEN FilterDataByYear(dates, depths, year)
                ELSE [set |-> FALSE, raised |-> FALSE, dates |-> dates, depths |-> depths]
           r == ReduceResolution(f.dates, f.depths, resolution)
           t == Polyfit(Date2NumSeq(r.dates), r.depths)
       IN IF f.raised
          THEN /\ pc' = "aborted"
               /\ err' = Raised("IndexError", "filter_data_by_year")
               /\ UNCHANGED <<filtered, reduced, trend>>
          ELSE /\ filtered' = IF cls = "YEAR" THEN f ELSE filtered
               /\ reduced' = r
               /\ IF t.raised
                  THEN /\ pc' = "aborted"
                       /\ err' = Raised("TypeError", "plot_data")
                       /\ trend' = trend
                  ELSE /\ trend' = t
                       /\ UNCHANGED <<pc, err>>
    /\ UNCHANGED <<config, reloads, status, idx, series, out, refiltered>>

Next ==
    \/ FetchFails
    \/ Fetch
    \/ ProcessRow
    \/ CallFilterDataByYear
    \/ FilterAgain
    \/ CallReduceResolution
    \/ PlotData

Spec == Init /\ [][Next]_vars

(***************************************************************************)
(* load_data called again on a loaded instance, against the same source.   *)
(* Nothing in load_data resets self.dates or self.depths: the row loop     *)
(* appends to the lists as they are.                                       *)
(***************************************************************************)
\* load_data again: requests.get raises
LoadAgainFetchFails ==
    /\ pc = "loaded"
    /\ reloads < MaxReloads
    /\ reloads' = reloads + 1
    /\ pc' = "aborted"
    /\ err' = Raised("ConnectionError", "load_data")
    /\ UNCHANGED <<config, status, idx, series, out, results>>

\* load_data again: the response and the status test; the loop restarts at
\* the first row of the same body
LoadAgain ==
    /\ pc = "loaded"
    /\ reloads < MaxReloads
    /\ reloads' = reloads + 1
    /\ \E st \in StatusCodes :
         /\ status' = st
         /\ IF StatusFails(st)
            THEN /\ pc' = "aborted"
                 /\ err' = Raised("Exception", "load_data")
                 /\ idx' = idx
            ELSE /\ pc' = LoopPc(1)
                 /\ err' = err
                 /\ idx' = 1
    /\ UNCHANGED <<config, series, out, results>>

NextReload ==
    \/ Next
    \/ LoadAgainFetchFails
    \/ LoadAgain

SpecReload == Init /\ [][NextReload]_vars

(***************************************************************************)
(* Properties of load_data                                                 *)
(***************************************************************************)
\* The rows of the source, as lists of fields.
RowAt(i) == Fields(rows[i])

\* The rows the loop of load_data has finished with.
Processed == IF pc \in {"rows", "loaded"} THEN 1..(idx - 1) ELSE {}

\* C1: every row is stored atomically.  After any sequence of rows the
\* timestamp list and the depth list have the same length, and entry k of
\* both was parsed from the same input row.
C1_RowsStoredAtomically ==
    /\ Len(dates) = Len(depths)
    /\ dateRow = depthRow

\* C2: a row with fewer than 5 fields produces no Record: no entry of the
\* timestamp list and no entry of the depth list was parsed from such a row.
C2_ShortRowsStoreNothing ==
    /\ \A k \in 1..Len(dateRow) : Len(RowAt(dateRow[k])) >= 5
    /\ \A k \in 1..Len(depthRow) : Len(RowAt(depthRow[k])) >= 5

\* A row whose field 0 starts with '#' or equals 'agency_cd'.
CommentOrHeader(row) ==
    /\ Len(row) >= 1
    /\ \/ (Len(row[1]) >= 1 /\ row[1][1] = "#")
       \/ row[1] = <<"a", "g", "e", "n", "c", "y", "_", "c", "d">>

\* A row with a well-formed timestamp in field 2 and a float in field 4.
HasValidFields(row) ==
    /\ Len(row) >= 5
    /\ Strptime(row[3]).ok
    /\ Float(row[5]).ok

\* C3: the iteration of the row loop on a row whose field 0 starts with '#'
\* or equals 'agency_cd' leaves the timestamp list and the depth list
\* unchanged, whatever the other fields hold.
C3_CommentAndHeaderRowsStoreNothing ==
    [][(pc = "rows" /\ CommentOrHeader(RowAt(idx)))
         => (dates' = dates /\ depths' = depths)]_vars

\* C3 witness: the loop has passed a comment row and a header row that both
\* carry a valid timestamp and a valid depth, and a data row was stored.
C3_Witness ==
    /\ pc = "loaded"
    /\ \E i \in Processed :
         /\ RowAt(i)[1][1] = "#"
         /\ HasValidFields(RowAt(i))
    /\ \E j \in Processed :
         /\ RowAt(j)[1] = F_AgencyCd
         /\ HasValidFields(RowAt(j))
    /\ Len(dates) = 1
    /\ Len(depths) = 1

(***************************************************************************)
(* Properties of the year filter                                           *)
(***************************************************************************)
\* The Records of the source from row i on: one per row that is neither a
\* comment nor the header, has at least 5 fields, a timestamp field with a
\* space that parses and a non-empty depth field that parses.
RECURSIVE RecordsFrom(_)
RecordsFrom(i) ==
    IF i > Len(rows) THEN <<>>
    ELSE (IF ~CommentOrHeader(RowAt(i)) /\ HasValidFields(RowAt(i))
          THEN <<[timestamp |-> DateValue(RowAt(i)[3]), depth |-> DepthValue(RowAt(i)[5])]>>
          ELSE <<>>)
         \o RecordsFrom(i + 1)

InYear(rec) == rec.timestamp.year = year

\* C4: the year filter never raises, and it returns exactly the Records of
\* the loaded series whose timestamp's year is the target year, in the
\* original order, as two lists of equal length paired entry by entry.
C4_YearFilterReturnsRecordsOfYear ==
    /\ err.in # "filter_data_by_year"
    /\ filtered.set =>
         LET want == SelectSeq(RecordsFrom(1), InYear)
         IN /\ Len(filtered.dates) = Len(filtered.depths)
            /\ filtered.dates = [k \in 1..Len(want) |-> want[k].timestamp]
            /\ filtered.depths = [k \in 1..Len(want) |-> want[k].depth]

\* C5: filtering the result of a year filter again by the same year gives
\* the same series as filtering once.
C5_YearFilterIdempotent ==
    refiltered.set =>
        /\ ~refiltered.raised
        /\ refiltered.dates = filtered.dates
        /\ refiltered.depths = filtered.depths

\* C5 witness: the second filter has run on a non-empty result of a first
\* filter that had dropped a Record of another year.
C5_Witness ==
    /\ refiltered.set
    /\ Len(refiltered.dates) >= 2
    /\ Len(filtered.dates) < Len(dates)

(***************************************************************************)
(* Properties of the downsampler                                           *)
(***************************************************************************)
\* The positions 0, N, 2N, ... below len, counted from 0.
Positions(len, n) == {p \in 0..(len - 1) : p % n = 0}

\* out holds the entries of in at the positions 0, N, 2N, ..., in order.
TakesEveryNth(in, res, n) ==
    /\ Len(res) = Cardinality(Positions(Len(in), n))
    /\ \A k \in 1..Len(res) : res[k] = in[(k - 1) * n + 1]

\* C6: for a stride N >= 1, reduce_resolution returns the entries at the
\* positions 0, N, 2N, ... of its input, in order, and selects the same
\* positions of the timestamp list and of the depth list, so that lists
\* paired entry by entry stay paired.
C6_DownsamplerTakesEveryNth ==
    reduced.set =>
        /\ TakesEveryNth(ReduceInput.dates, reduced.dates, resolution)
        /\ TakesEveryNth(ReduceInput.depths, reduced.depths, resolution)
        /\ Len(ReduceInput.dates) = Len(ReduceInput.depths)
             => Len(reduced.dates) = Len(reduced.depths)

\* C6 witness: a stride of 2 has taken the positions 0 and 2 of three Records.
C6_Witness ==
    /\ reduced.set
    /\ resolution = 2
    /\ Len(ReduceInput.dates) = 3
    /\ Len(ReduceInput.depths) = 3
    /\ Len(reduced.dates) = 2
    /\ Len(reduced.depths) = 2
    /\ reduced.dates[2] # reduced.dates[1]

\* the entries of in, whole
SameList(in, res) == res = in

\* only the first entry of in
OnlyFirst(in, res) == Len(res) = 1 /\ res[1] = in[1]

\* C7 as stated: a stride of 1 returns the input unchanged, and a stride
\* greater than or equal to the length of the input returns only the first
\* element.
C7_Stride1AndLargeStride ==
    reduced.set =>
        /\ resolution = 1 =>
             /\ SameList(ReduceInput.dates, reduced.dates)
             /\ SameList(ReduceInput.depths, reduced.depths)
        /\ resolution >= Len(ReduceInput.dates)
             => OnlyFirst(ReduceInput.dates, reduced.dates)
        /\ resolution >= Len(ReduceInput.depths)
             => OnlyFirst(ReduceInput.depths, reduced.depths)

\* only the first entry of in, and nothing when in is empty
OnlyFirstIfAny(in, res) == IF in = <<>> THEN res = <<>> ELSE OnlyFirst(in, res)

\* C7 amended: a stride of 1 returns the input unchanged; a stride greater
\* than or equal to the length of the input returns only the first element
\* of a non-empty input, and the empty series for an empty input.
C7_Stride1AndLargeStrideNonEmpty ==
    reduced.set =>
        /\ resolution = 1 =>
             /\ SameList(ReduceInput.dates, reduced.dates)
             /\ SameList(ReduceInput.depths, reduced.depths)
        /\ resolution >= Len(ReduceInput.dates)
             => OnlyFirstIfAny(ReduceInput.dates, reduced.dates)
        /\ resolution >= Len(ReduceInput.depths)
             => OnlyFirstIfAny(ReduceInput.depths, reduced.depths)

\* C7 witness: a stride of 2 has reduced two Records to the first one.
C7_Witness ==
    /\ reduced.set
    /\ resolution = 2
    /\ Len(ReduceInput.dates) = 2
    /\ Len(ReduceInput.depths) = 2
    /\ Len(reduced.dates) = 1
    /\ Len(reduced.depths) = 1

(***************************************************************************)
(* Properties of the pipeline                                              *)
(***************************************************************************)
\* C8: when the response status is not 200, load_data has raised with the
\* timestamp list and the depth list still empty, no row parsed, and no
\* later step of the pipeline runs.
C8_SourceUnavailableAborts ==
    status \notin {0, 200} =>
        /\ pc = "aborted"
        /\ err = Raised("Exception", "load_data")
        /\ dates = <<>>
        /\ depths = <<>>
        /\ idx = 0
        /\ out = <<>>
        /\ ~filtered.set
        /\ ~reduced.set
        /\ ~trend.set
        /\ ~ENABLED Next

\* C8 witness: the status is 404 and the source holds a row that would have
\* given a Record.
C8_Witness ==
    /\ status = 404
    /\ pc = "aborted"
    /\ \E i \in 1..Len(rows) : ~CommentOrHeader(RowAt(i)) /\ HasValidFields(RowAt(i))

\* All the timestamps of ds are the same one.
AllSame(ds) == \A i, j \in 1..Len(ds) : ds[i] = ds[j]

\* C9: the trend computation of plot_data never returns a slope and an
\* intercept for a downsampled series of fewer than 2 points or of
\* identical timestamps: it fails.
C9_DegenerateInputFails ==
    trend.set =>
        /\ Len(reduced.dates) >= 2
        /\ ~AllSame(reduced.dates)

\* C10: filter_data_by_year, reduce_resolution and plot_data leave the
\* stored timestamp list and the stored depth list as load_data left them.
C10_DerivedSeriesDoNotMutate ==
    [][(CallFilterDataByYear \/ FilterAgain \/ CallReduceResolution \/ PlotData)
         => (dates' = dates /\ depths' = depths)]_vars

\* C10 witness: the filter, the downsampler and plot_data have all run, each
\* returning fewer entries than it was given.
C10_Witness ==
    /\ pc = "loaded"
    /\ filtered.set
    /\ reduced.set
    /\ trend.set
    /\ Len(filtered.dates) < Len(dates)
    /\ Len(reduced.dates) < Len(filtered.dates)
    /\ Len(dates) = Cardinality(Processed)

(***************************************************************************)
(* Properties of the diagnostics and of the termination of load_data       *)
(***************************************************************************)
\* C11: the iteration of the row loop on a row that is neither a comment
\* nor the header and that gives no Record (fewer than 5 fields, a bad
\* timestamp, or an empty, absent or bad depth) prints at least one
\* skipped-row diagnostic.
C11_SkippedRowsAreReported ==
    [][(pc = "rows" /\ ~CommentOrHeader(RowAt(idx)) /\ ~HasValidFields(RowAt(idx)))
         => Len(out') > Len(out)]_vars

\* C13: once the source has been read (status 200), load_data does not
\* raise, whatever the rows hold: it is in the row loop or has returned.
C13_LoadDataNeverRaisesOnRows ==
    status = 200 => err.in # "load_data"

(***************************************************************************)
(* Properties of repeated loads                                            *)
(***************************************************************************)
\* The timestamps one pass of the row loop over the source appends, from
\* row i on.
RECURSIVE SingleLoadDates(_)
SingleLoadDates(i) ==
    IF i > Len(rows) THEN <<>>
    ELSE (IF ~CommentOrHeader(RowAt(i)) /\ DateAccepted(DatetimeStr(RowAt(i)))
          THEN <<DateValue(DatetimeStr(RowAt(i)))>>
          ELSE <<>>)
         \o SingleLoadDates(i + 1)

\* The depths one pass of the row loop over the source appends, from row i on.
RECURSIVE SingleLoadDepths(_)
SingleLoadDepths(i) ==
    IF i > Len(rows) THEN <<>>
    ELSE (IF ~CommentOrHeader(RowAt(i)) /\ DepthAccepted(DepthStr(RowAt(i)))
          THEN <<DepthValue(DepthStr(RowAt(i)))>>
          ELSE <<>>)
         \o SingleLoadDepths(i + 1)

\* C12: after any number of load_data calls on the same instance against
\* the same source, the stored series is the series of a single load.
C12_EachLoadBuildsFreshSeries ==
    pc = "loaded" =>
        /\ dates = SingleLoadDates(1)
        /\ depths = SingleLoadDepths(1)

====
